---- MODULE Spec2Model ----
(***************************************************************************)
(* Model of server.js: the /scrape handler (postal lookup), the helper     *)
(* getEconomicRegionData (region fetcher), the staleness test isDataStale  *)
(* and the single shared pg client whose queries run one at a time in the  *)
(* order they were issued.                                                 *)
(*                                                                         *)
(* Millisecond timestamps exceed 32 bits (30 days = 2 592 000 000 ms), so  *)
(* a timestamp is kept exactly as a pair [d, ms]: whole days and the       *)
(* milliseconds within the day.                                            *)
(***************************************************************************)
EXTENDS Integers, Sequences, FiniteSets, TLC

VARIABLES now, postalTable, regionTable, remoteRegionRows, queue, pc, local,
          resp, log, crashed, probe

vars == <<now, postalTable, regionTable, remoteRegionRows, queue, pc, local,
          resp, log, crashed, probe>>

-----------------------------------------------------------------------------
(* Bounds *)

NumReqs == 2

MaxTicks == 1

ProbeDays == 1

-----------------------------------------------------------------------------
(* Time: Date.now() and Date values, in exact milliseconds *)

MS_PER_SECOND == 1000

MS_PER_DAY == 24 * 60 * 60 * 1000

Ms(days, millis) == [d |-> days, ms |-> millis]

\* a - b in milliseconds, normalised so that 0 <= ms < MS_PER_DAY
TimeSub(a, b) ==
    IF a.ms >= b.ms THEN Ms(a.d - b.d, a.ms - b.ms)
    ELSE Ms(a.d - b.d - 1, a.ms - b.ms + MS_PER_DAY)

\* a + b in milliseconds
TimeAdd(a, b) ==
    IF a.ms + b.ms < MS_PER_DAY THEN Ms(a.d + b.d, a.ms + b.ms)
    ELSE Ms(a.d + b.d + 1, a.ms + b.ms - MS_PER_DAY)

\* a > b
TimeGt(a, b) == a.d > b.d \/ (a.d = b.d /\ a.ms > b.ms)

TimeGe(a, b) == a = b \/ TimeGt(a, b)

\* 30 * 24 * 60 * 60 * 1000
THIRTY_DAYS_IN_MS == Ms(30, 0)

isDataStale_swapped(retrievalDate, dateNow) ==
    TimeGt(TimeSub(retrievalDate, dateNow), THIRTY_DAYS_IN_MS)

isDataStale_inclusive(retrievalDate, dateNow) ==
    TimeGe(TimeSub(dateNow, retrievalDate), THIRTY_DAYS_IN_MS)

\* (Date.now() - new Date(retrievalDate).getTime()) > THIRTY_DAYS_IN_MS
isDataStale(retrievalDate, dateNow) ==
    TimeGt(TimeSub(dateNow, retrievalDate), THIRTY_DAYS_IN_MS)

-----------------------------------------------------------------------------
(* Text values *)

\* the JavaScript value undefined, where a text was expected
UNDEFINED == "<undefined>"

\* postal codes are sequences of characters
K1A == <<"K", "1">>

K_1A == <<"K", " ", "1">>

Z9Z == <<"Z", "9">>

\* req.query.postalCode when the query has no postalCode parameter
NoPostalCode == <<UNDEFINED>>

PostalInputs == {K1A, K_1A, Z9Z, NoPostalCode}

RECURSIVE ReplaceFirst(_, _)
\* String.prototype.replace(c, ''): removes the first occurrence of c only
ReplaceFirst(s, c) ==
    IF s = <<>> THEN <<>>
    ELSE IF Head(s) = c THEN Tail(s)
    ELSE <<Head(s)>> \o ReplaceFirst(Tail(s), c)

-----------------------------------------------------------------------------
(* Remote source: the pages behind BASE_URL *)

\* what pg stores for a parameter whose JavaScript value is undefined
NULL == "<null>"

\* pg sends undefined parameters as NULL; every other text is stored verbatim
ToSql(v) == IF v = UNDEFINED THEN NULL ELSE v

OttawaLocator == "region/35.aspx"

\* the rows of table#table on postalcode.aspx?_code=<urlCode>; each row is
\* its cells, the fifth cell holding an anchor (text and href)
PostalPageRows(urlCode, commonName) ==
    IF urlCode = K1A
    THEN << [c0 |-> K1A, c1 |-> "Ottawa", c2 |-> commonName, c3 |-> "Ottawa",
             aText |-> "Ottawa", aHref |-> OttawaLocator],
            [c0 |-> K1A, c1 |-> "Gloucester", c2 |-> commonName, c3 |-> "Ottawa",
             aText |-> "Ottawa", aHref |-> OttawaLocator] >>
    ELSE << >>

RemotePostalPage(urlCode) == PostalPageRows(urlCode, "Ottawa")

\* the rows of table#regions on a region page, each row its eight cells
RegionPageRows(rate) ==
    << [c0 |-> "QC", c1 |-> "2418", c2 |-> "Outaouais", c3 |-> "7.0",
        c4 |-> "630", c5 |-> "17", c6 |-> "40", c7 |-> "20"],
       [c0 |-> "ON", c1 |-> "3520", c2 |-> "Ottawa", c3 |-> rate,
        c4 |-> "420", c5 |-> "14", c6 |-> "45", c7 |-> "14-22"] >>

\* the region page as the remote source serves it during one behaviour:
\* a table with rows, or a table without any row
RemoteRegionContents == { RegionPageRows("5.6"), << >> }

RemoteRegionPage(locator) ==
    IF locator = OttawaLocator THEN remoteRegionRows ELSE << >>

\* axios.get resolves only for a 2xx answer; a locator the remote source
\* does not know (BASE_URL + 'undefined', BASE_URL + 'null') is answered 404
RegionFetchOutcomes(locator) ==
    IF locator = OttawaLocator THEN {"ok", "failed"} ELSE {"failed"}

PostalFetchOutcomes == {"ok", "failed"}

-----------------------------------------------------------------------------
(* Extraction *)

PostalFromFirstRow(rows, dateNow) ==
    IF rows = << >>
    THEN [PostalCode |-> << >>, CensusSubdivisionName |-> "", CommonName |-> "",
          CensusDivisionName |-> "", EIEconomicRegionName |-> "",
          EIEconomicRegionURL |-> UNDEFINED, date_retrieved |-> dateNow]
    ELSE [PostalCode |-> rows[1].c0, CensusSubdivisionName |-> rows[1].c1,
          CommonName |-> rows[1].c2, CensusDivisionName |-> rows[1].c3,
          EIEconomicRegionName |-> rows[1].aText,
          EIEconomicRegionURL |-> rows[1].aHref, date_retrieved |-> dateNow]

\* const tableData = {}: no property is set (reading one gives undefined)
EmptyTableData ==
    [Province |-> UNDEFINED, EconomicRegionCode |-> UNDEFINED,
     EconomicRegionName |-> UNDEFINED, UnemploymentRate |-> UNDEFINED,
     InsuredHoursRequired |-> UNDEFINED, MinWeeksPayable |-> UNDEFINED,
     MaxWeeksPayable |-> UNDEFINED, BestWeeksRequired |-> UNDEFINED]

\* the body of the .each callback: every property is overwritten from the row
SetFromRow(tableData, row) ==
    [tableData EXCEPT !.Province = row.c0, !.EconomicRegionCode = row.c1,
                      !.EconomicRegionName = row.c2, !.UnemploymentRate = row.c3,
                      !.InsuredHoursRequired = row.c4, !.MinWeeksPayable = row.c5,
                      !.MaxWeeksPayable = row.c6, !.BestWeeksRequired = row.c7]

EachRow_firstRowOnly(tableData, rows) ==
    IF rows = << >> THEN tableData ELSE SetFromRow(tableData, Head(rows))

RECURSIVE EachRow(_, _)
\* .each visits the rows in document order, every row writing into tableData
EachRow(tableData, rows) ==
    IF rows = << >> THEN tableData
    ELSE EachRow(SetFromRow(tableData, Head(rows)), Tail(rows))

\* scrapeEconomicRegion, after the page has been fetched
scrapeEconomicRegion(rows) == EachRow(EmptyTableData, rows)

-----------------------------------------------------------------------------
(* Cache store: two tables, each a function from the primary keys present *)

Select(table, key) == IF key \in DOMAIN table THEN <<table[key]>> ELSE << >>

Upsert_keepsExisting(table, key, row) ==
    [k \in DOMAIN table \cup {key} |-> IF k \in DOMAIN table THEN table[k] ELSE row]

Upsert_keepsOldDate(table, key, row) ==
    [k \in DOMAIN table \cup {key} |->
        IF k # key THEN table[k]
        ELSE IF k \in DOMAIN table
             THEN [row EXCEPT !.date_retrieved = table[k].date_retrieved]
             ELSE row]

\* INSERT ... ON CONFLICT (key) DO UPDATE SET every other column
Upsert(table, key, row) ==
    [k \in DOMAIN table \cup {key} |-> IF k = key THEN row ELSE table[k]]

PostalParams_scrapedKey(postalCode, postalData) ==
    [postal_code |-> postalData.PostalCode,
     census_subdivision_name |-> ToSql(postalData.CensusSubdivisionName),
     common_name |-> ToSql(postalData.CommonName),
     census_division_name |-> ToSql(postalData.CensusDivisionName),
     ei_economic_region_name |-> ToSql(postalData.EIEconomicRegionName),
     ei_economic_region_url |-> ToSql(postalData.EIEconomicRegionURL),
     date_retrieved |-> postalData.date_retrieved]

\* the parameters $1..$7 of the postal upsert
PostalParams(postalCode, postalData) ==
    [postal_code |-> postalCode,
     census_subdivision_name |-> ToSql(postalData.CensusSubdivisionName),
     common_name |-> ToSql(postalData.CommonName),
     census_division_name |-> ToSql(postalData.CensusDivisionName),
     ei_economic_region_name |-> ToSql(postalData.EIEconomicRegionName),
     ei_economic_region_url |-> ToSql(postalData.EIEconomicRegionURL),
     date_retrieved |-> postalData.date_retrieved]

\* the parameters $1..$9 of the region upsert
RegionParams(regionName, econRegionData) ==
    [economic_region_name |-> ToSql(regionName),
     province |-> ToSql(econRegionData.Province),
     economic_region_code |-> ToSql(econRegionData.EconomicRegionCode),
     unemployment_rate |-> ToSql(econRegionData.UnemploymentRate),
     insured_hours_required |-> ToSql(econRegionData.InsuredHoursRequired),
     min_weeks_payable |-> ToSql(econRegionData.MinWeeksPayable),
     max_weeks_payable |-> ToSql(econRegionData.MaxWeeksPayable),
     best_weeks_required |-> ToSql(econRegionData.BestWeeksRequired),
     date_retrieved |-> econRegionData.date_retrieved]

-----------------------------------------------------------------------------
(* State *)

Reqs == 1..NumReqs

\* the clock when the model starts, and the retrieval date of the rows that
\* earlier lookups left in the store: aged exactly 30 days, so that they are
\* still fresh now and stale one millisecond later
StartTime == Ms(31, 0)

EdgeDate == TimeSub(StartTime, THIRTY_DAYS_IN_MS)

StoredDates == {EdgeDate}

\* a row written by an earlier lookup, when the pages read "Bytown" and "6.1"
StoredPostalRow(postalCode, date) ==
    PostalParams(postalCode,
        PostalFromFirstRow(PostalPageRows(ReplaceFirst(postalCode, " "), "Bytown"), date))

StoredRegionRow(regionName, date) ==
    RegionParams(regionName,
        [date_retrieved |-> date] @@ scrapeEconomicRegion(RegionPageRows("6.1")))

InitPostalTables ==
    UNION { { [k \in S |-> StoredPostalRow(k, f[k])] : f \in [S -> StoredDates] }
            : S \in SUBSET {K1A} }

InitRegionTables ==
    UNION { { [k \in S |-> StoredRegionRow(k, f[k])] : f \in [S -> StoredDates] }
            : S \in SUBSET {"Ottawa"} }

NoRecord == [none |-> TRUE]

NoResponse == [status |-> 0, body |-> NoRecord]

InitLocal ==
    [postalCode |-> NoPostalCode, path |-> "none", postal |-> NoRecord,
     regionName |-> "", regionURL |-> ""]

\* what one lookup did at the store and at the remote source
InitLog ==
    [postalCode |-> NoPostalCode, postalRead |-> "none", postalFetches |-> 0,
     postalFetch |-> "none", postalUpserts |-> 0, postalUpsert |-> "none",
     regionRead |-> "none", regionFetches |-> 0,
     regionFetch |-> "none", regionUpserts |-> 0, regionUpsert |-> "none"]

NoProbe == [dateNow |-> Ms(0, 0), retrievalDate |-> Ms(0, 0), result |-> "none"]

Init ==
    /\ now = StartTime
    /\ postalTable \in InitPostalTables
    /\ regionTable \in InitRegionTables
    /\ remoteRegionRows \in RemoteRegionContents
    /\ queue = << >>
    /\ pc = [r \in Reqs |-> "idle"]
    /\ local = [r \in Reqs |-> InitLocal]
    /\ resp = [r \in Reqs |-> NoResponse]
    /\ log = [r \in Reqs |-> InitLog]
    /\ crashed = FALSE
    /\ probe = NoProbe

-----------------------------------------------------------------------------
(* Responses *)

\* res.status(500).json({ error: message })
Failure(message) == [status |-> 500, body |-> [error |-> message]]

CaughtScrapeError_swallowed == [status |-> 200, body |-> [data |-> << >>]]

\* the catch block of the handler
CaughtScrapeError == Failure("Error scraping postal code data")

\* res.json({ data: [postal] }) after postal.EconomicRegionDetails = details
Success(postal, details) ==
    [status |-> 200,
     body |-> [data |-> << [EconomicRegionDetails |-> details] @@ postal >>]]

Respond(r, response) ==
    /\ resp' = [resp EXCEPT ![r] = response]
    /\ pc' = [pc EXCEPT ![r] = "responded"]
    /\ local' = [local EXCEPT ![r] = InitLocal]
    /\ crashed' = crashed

\* a rejection or exception that leaves an async callback without a handler:
\* no response is written, and Node 18 ends the process on the unhandled
\* rejection
Unhandled(r) ==
    /\ pc' = [pc EXCEPT ![r] = "abandoned"]
    /\ local' = [local EXCEPT ![r] = InitLocal]
    /\ crashed' = TRUE
    /\ resp' = resp

RegionRejected_nullDetails(r) == Respond(r, Success(local[r].postal, NULL))

\* the promise of getEconomicRegionData rejects: on the miss path the await
\* is inside try/catch, on the cache-hit path it is not
RegionRejected(r) ==
    IF local[r].path = "miss"
    THEN Respond(r, CaughtScrapeError)
    ELSE Unhandled(r)

-----------------------------------------------------------------------------
(* The /scrape handler *)

Enqueue_front(q, query) == <<query>> \o q

\* client.query(text, values): the query joins the end of the client's queue
Enqueue(q, query) == Append(q, query)

\* client.query runs the queries one at a time, in the order issued
IsHead(op, r) == queue # << >> /\ Head(queue).op = op /\ Head(queue).req = r

\* what a SELECT found, by the age of the row at that moment (for the log)
Found(rows, dateNow) ==
    IF rows = << >> THEN "absent"
    ELSE IF TimeGe(TimeAdd(rows[1].date_retrieved, THIRTY_DAYS_IN_MS), dateNow)
         THEN "within30days" ELSE "beyond30days"

\* what a fetch brought, by the rows of the page (for the log)
Fetched(rows) == IF rows = << >> THEN "empty" ELSE "ok"

\* app.get('/scrape'): the postal SELECT is issued with the raw query value
Receive(r, postalCode) ==
    /\ ~crashed
    /\ pc[r] = "idle"
    /\ \A q \in Reqs : q < r => pc[q] # "idle"
    /\ queue' = Enqueue(queue, [op |-> "selectPostal", req |-> r, key |-> postalCode])
    /\ local' = [local EXCEPT ![r].postalCode = postalCode]
    /\ log' = [log EXCEPT ![r].postalCode = postalCode]
    /\ pc' = [pc EXCEPT ![r] = "selectPostal"]
    /\ UNCHANGED <<now, postalTable, regionTable, remoteRegionRows, resp,
                   crashed, probe>>

PostalCacheHit_noNegation(rows, dateNow) ==
    rows # << >> /\ isDataStale(rows[1].date_retrieved, dateNow)

\* postalRow && !isDataStale(postalRow.date_retrieved)
PostalCacheHit(rows, dateNow) ==
    rows # << >> /\ ~isDataStale(rows[1].date_retrieved, dateNow)

PostalBranch_errIgnored(outcome, rows, dateNow) ==
    IF PostalCacheHit(rows, dateNow) THEN "hit" ELSE "fetch"

\* the branch the callback of the postal SELECT takes
PostalBranch(outcome, rows, dateNow) ==
    IF outcome = "error" THEN "error"
    ELSE IF PostalCacheHit(rows, dateNow) THEN "hit"
    ELSE "fetch"

\* the callback of the postal SELECT, up to the first await
SelectPostalDone(r, outcome) ==
    /\ ~crashed
    /\ IsHead("selectPostal", r)
    /\ LET rows == IF outcome = "error" THEN << >>
                   ELSE Select(postalTable, Head(queue).key)
           branch == PostalBranch(outcome, rows, now)
           found == IF outcome = "error" THEN "error" ELSE Found(rows, now)
       IN  CASE branch = "error" ->
                /\ Respond(r, Failure("Database error"))
                /\ queue' = Tail(queue)
                /\ log' = [log EXCEPT ![r].postalRead = found]
             [] branch = "hit" ->
                \* getEconomicRegionData(postalRow.ei_economic_region_name, ..._url)
                /\ queue' = Enqueue(Tail(queue),
                                [op |-> "selectRegion", req |-> r,
                                 key |-> rows[1].ei_economic_region_name])
                /\ local' = [local EXCEPT ![r].path = "hit",
                                          ![r].postal = rows[1],
                                          ![r].regionName = rows[1].ei_economic_region_name,
                                          ![r].regionURL = rows[1].ei_economic_region_url]
                /\ log' = [log EXCEPT ![r].postalRead = found]
                /\ pc' = [pc EXCEPT ![r] = "selectRegion"]
                /\ UNCHANGED <<resp, crashed>>
             [] branch = "fetch" /\ local[r].postalCode = NoPostalCode ->
                \* postalCode.replace on undefined throws, outside the try
                /\ Unhandled(r)
                /\ queue' = Tail(queue)
                /\ log' = [log EXCEPT ![r].postalRead = found]
             [] branch = "fetch" /\ local[r].postalCode # NoPostalCode ->
                \* axios.get(BASE_URL + POSTAL_CODE_ENDPOINT + code) is issued
                /\ queue' = Tail(queue)
                /\ local' = [local EXCEPT ![r].path = "miss"]
                /\ log' = [log EXCEPT ![r].postalRead = found,
                                      ![r].postalFetches = @ + 1]
                /\ pc' = [pc EXCEPT ![r] = "fetchPostal"]
                /\ UNCHANGED <<resp, crashed>>
    /\ UNCHANGED <<now, postalTable, regionTable, remoteRegionRows, probe>>

\* the postal page arrives (or axios.get rejects): extraction, the postal
\* upsert is issued without being awaited, getEconomicRegionData is called
FetchPostalDone(r, outcome) ==
    /\ ~crashed
    /\ pc[r] = "fetchPostal"
    /\ IF outcome = "failed"
       THEN /\ Respond(r, CaughtScrapeError)
            /\ log' = [log EXCEPT ![r].postalFetch = "failed"]
            /\ queue' = queue
       ELSE LET postalCode == local[r].postalCode
                page == RemotePostalPage(ReplaceFirst(postalCode, " "))
                postalData == PostalFromFirstRow(page, now)
            IN  /\ queue' = Enqueue(
                                Enqueue(queue,
                                    [op |-> "upsertPostal", req |-> r,
                                     row |-> PostalParams(postalCode, postalData)]),
                                [op |-> "selectRegion", req |-> r,
                                 key |-> postalData.EIEconomicRegionName])
                /\ local' = [local EXCEPT ![r].postal = postalData,
                                          ![r].regionName = postalData.EIEconomicRegionName,
                                          ![r].regionURL = postalData.EIEconomicRegionURL]
                /\ log' = [log EXCEPT ![r].postalFetch = Fetched(page),
                                      ![r].postalUpserts = @ + 1,
                                      ![r].postalUpsert = "issued"]
                /\ pc' = [pc EXCEPT ![r] = "selectRegion"]
                /\ UNCHANGED <<resp, crashed>>
    /\ UNCHANGED <<now, postalTable, regionTable, remoteRegionRows, probe>>

-----------------------------------------------------------------------------
(* getEconomicRegionData *)

RegionCacheHit_noNegation(rows, dateNow) ==
    rows # << >> /\ isDataStale(rows[1].date_retrieved, dateNow)

\* econRow && !isDataStale(econRow.date_retrieved)
RegionCacheHit(rows, dateNow) ==
    rows # << >> /\ ~isDataStale(rows[1].date_retrieved, dateNow)

\* the branch the callback of the region SELECT takes
RegionBranch(outcome, rows, dateNow) ==
    IF outcome = "error" THEN "error"
    ELSE IF RegionCacheHit(rows, dateNow) THEN "hit"
    ELSE "fetch"

\* the callback of the region SELECT, up to the await in scrapeEconomicRegion;
\* resolve(econRow) resumes the handler, which writes the response
SelectRegionDone(r, outcome) ==
    /\ ~crashed
    /\ IsHead("selectRegion", r)
    /\ queue' = Tail(queue)
    /\ LET rows == IF outcome = "error" THEN << >>
                   ELSE Select(regionTable, Head(queue).key)
           branch == RegionBranch(outcome, rows, now)
           found == IF outcome = "error" THEN "error" ELSE Found(rows, now)
       IN  CASE branch = "error" ->
                /\ RegionRejected(r)
                /\ log' = [log EXCEPT ![r].regionRead = found]
             [] branch = "hit" ->
                /\ Respond(r, Success(local[r].postal, rows[1]))
                /\ log' = [log EXCEPT ![r].regionRead = found]
             [] branch = "fetch" ->
                \* axios.get(BASE_URL + regionURL) is issued
                /\ log' = [log EXCEPT ![r].regionRead = found,
                                      ![r].regionFetches = @ + 1]
                /\ pc' = [pc EXCEPT ![r] = "fetchRegion"]
                /\ UNCHANGED <<resp, crashed, local>>
    /\ UNCHANGED <<now, postalTable, regionTable, remoteRegionRows, probe>>

\* the region page arrives (or axios.get rejects): the table walk, the region
\* upsert is issued without being awaited, resolve(econRegionData)
FetchRegionDone(r, outcome) ==
    /\ ~crashed
    /\ pc[r] = "fetchRegion"
    /\ outcome \in RegionFetchOutcomes(local[r].regionURL)
    /\ IF outcome = "failed"
       THEN /\ RegionRejected(r)
            /\ log' = [log EXCEPT ![r].regionFetch = "failed"]
            /\ queue' = queue
       ELSE LET page == RemoteRegionPage(local[r].regionURL)
                econRegionData ==
                    [date_retrieved |-> now] @@ scrapeEconomicRegion(page)
            IN  /\ queue' = Enqueue(queue,
                                [op |-> "upsertRegion", req |-> r,
                                 row |-> RegionParams(local[r].regionName, econRegionData)])
                /\ Respond(r, Success(local[r].postal, econRegionData))
                /\ log' = [log EXCEPT ![r].regionFetch = Fetched(page),
                                      ![r].regionUpserts = @ + 1,
                                      ![r].regionUpsert = "issued"]
    /\ UNCHANGED <<now, postalTable, regionTable, remoteRegionRows, probe>>

-----------------------------------------------------------------------------
(* The store executes the upserts; nobody waits for their outcome *)

UpsertPostalExec(outcome) ==
    /\ ~crashed
    /\ queue # << >>
    /\ Head(queue).op = "upsertPostal"
    /\ queue' = Tail(queue)
    /\ IF outcome = "error"
       THEN \* the promise of client.query rejects and nothing handles it
            /\ crashed' = TRUE
            /\ log' = [log EXCEPT ![Head(queue).req].postalUpsert = "failed"]
            /\ postalTable' = postalTable
       ELSE /\ postalTable' = Upsert(postalTable, Head(queue).row.postal_code,
                                     Head(queue).row)
            /\ log' = [log EXCEPT ![Head(queue).req].postalUpsert = "done"]
            /\ crashed' = crashed
    /\ UNCHANGED <<now, regionTable, remoteRegionRows, pc, local, resp, probe>>

UpsertRegionExec(outcome) ==
    /\ ~crashed
    /\ queue # << >>
    /\ Head(queue).op = "upsertRegion"
    /\ queue' = Tail(queue)
    /\ IF outcome = "error"
       THEN /\ crashed' = TRUE
            /\ log' = [log EXCEPT ![Head(queue).req].regionUpsert = "failed"]
            /\ regionTable' = regionTable
       ELSE /\ regionTable' = Upsert(regionTable, Head(queue).row.economic_region_name,
                                     Head(queue).row)
            /\ log' = [log EXCEPT ![Head(queue).req].regionUpsert = "done"]
            /\ crashed' = crashed
    /\ UNCHANGED <<now, postalTable, remoteRegionRows, pc, local, resp, probe>>

\* Date.now() advances
Tick ==
    /\ ~crashed
    /\ now.ms < StartTime.ms + MaxTicks
    /\ now' = TimeAdd(now, Ms(0, 1))
    /\ UNCHANGED <<postalTable, regionTable, remoteRegionRows, queue, pc, local,
                   resp, log, crashed, probe>>

QueryOutcomes == {"ok", "error"}

Next ==
    \/ \E r \in Reqs, postalCode \in PostalInputs : Receive(r, postalCode)
    \/ \E r \in Reqs, outcome \in QueryOutcomes : SelectPostalDone(r, outcome)
    \/ \E r \in Reqs, outcome \in PostalFetchOutcomes : FetchPostalDone(r, outcome)
    \/ \E r \in Reqs, outcome \in QueryOutcomes : SelectRegionDone(r, outcome)
    \/ \E r \in Reqs, outcome \in {"ok", "failed"} : FetchRegionDone(r, outcome)
    \/ \E outcome \in QueryOutcomes : UpsertPostalExec(outcome)
    \/ \E outcome \in QueryOutcomes : UpsertRegionExec(outcome)
    \/ Tick

Spec == Init /\ [][Next]_vars

-----------------------------------------------------------------------------
(* isDataStale on its own: the clock and a retrieval date are drawn around  *)
(* the 30-day boundary and the function is applied to them                 *)

ProbeNows == {Ms(31, 0), Ms(31, 500), Ms(45, MS_PER_DAY - 1), Ms(60, MS_PER_SECOND)}

\* ages from ProbeDays days below to ProbeDays days above 30 days, at 0 ms,
\* 1 ms and 1 s after a whole day and 1 s and 1 ms before the next
ProbeAges ==
    { Ms(days, millis) :
        days \in (30 - ProbeDays)..(30 + ProbeDays),
        millis \in {0, 1, MS_PER_SECOND, MS_PER_DAY - MS_PER_SECOND, MS_PER_DAY - 1} }

InitStale ==
    /\ now = StartTime
    /\ postalTable = << >>
    /\ regionTable = << >>
    /\ remoteRegionRows = << >>
    /\ queue = << >>
    /\ pc = [r \in Reqs |-> "idle"]
    /\ local = [r \in Reqs |-> InitLocal]
    /\ resp = [r \in Reqs |-> NoResponse]
    /\ log = [r \in Reqs |-> InitLog]
    /\ crashed = FALSE
    /\ \E dateNow \in ProbeNows, age \in ProbeAges :
          probe = [dateNow |-> dateNow, retrievalDate |-> TimeSub(dateNow, age),
                   result |-> "none"]

CheckStale ==
    /\ probe.result = "none"
    /\ probe' = [probe EXCEPT !.result =
                    IF isDataStale(probe.retrievalDate, probe.dateNow)
                    THEN "stale" ELSE "fresh"]
    /\ UNCHANGED <<now, postalTable, regionTable, remoteRegionRows, queue, pc,
                   local, resp, log, crashed>>

NextStale == CheckStale

SpecStale == InitStale /\ [][NextStale]_vars

-----------------------------------------------------------------------------
(* Properties *)

PostalFetched(r) == log[r].postalFetch \in {"ok", "empty"}

RegionFetched(r) == log[r].regionFetch \in {"ok", "empty"}

\* C1: a lookup whose postal SELECT found a row retrieved within 30 days
\* never calls the remote source for the postal page; its only remote call
\* is at most one region fetch, made only when the region SELECT found no
\* row or a row older than 30 days.
C1_CacheHitNoPostalFetch ==
    \A r \in Reqs :
        log[r].postalRead = "within30days" =>
            /\ log[r].postalFetches = 0
            /\ log[r].postalFetch = "none"
            /\ log[r].regionFetches <= 1
            /\ log[r].regionFetches = 1 =>
                   log[r].regionRead \in {"absent", "beyond30days"}

C1_Witness ==
    \E r \in Reqs :
        /\ log[r].postalRead = "within30days"
        /\ log[r].regionRead = "beyond30days"
        /\ log[r].regionFetch = "ok"
        /\ resp[r].status = 200

\* C2: a lookup of a postal code whose SELECT found no row calls the remote
\* postal fetch exactly once and, when the page arrives, issues exactly one
\* postal upsert; every change of the postal table is the upsert of one
\* lookup taking effect on the row keyed by that lookup's postal code, all
\* other rows staying as they were.
C2_MissFetchesOnceUpsertsOneRow ==
    [][ /\ \A r \in Reqs :
              (log'[r].postalRead = "absent" /\ log'[r].postalCode # NoPostalCode) =>
                  /\ log'[r].postalFetches = 1
                  /\ log'[r].postalUpserts =
                         IF log'[r].postalFetch \in {"ok", "empty"} THEN 1 ELSE 0
        /\ postalTable' # postalTable =>
              \E r \in Reqs :
                  /\ log[r].postalUpsert = "issued"
                  /\ log'[r].postalUpsert = "done"
                  /\ DOMAIN postalTable' = DOMAIN postalTable \cup {log[r].postalCode}
                  /\ postalTable'[log[r].postalCode].postal_code = log[r].postalCode
                  /\ \A k \in DOMAIN postalTable :
                         k # log[r].postalCode => postalTable'[k] = postalTable[k]
      ]_vars

C2_Witness ==
    \E r \in Reqs :
        /\ log[r].postalRead = "absent"
        /\ log[r].postalCode = K_1A
        /\ log[r].postalFetches = 1
        /\ log[r].postalUpsert = "done"
        /\ K_1A \in DOMAIN postalTable
        /\ K1A \in DOMAIN postalTable

\* C3: in every successful result the postal part and the region part each
\* come from a stored row the lookup found retrieved at most 30 days before
\* its check (and then nothing was fetched for that part) or from the one
\* remote fetch the lookup made for that part; a stored row found older
\* than 30 days is never the one returned.
C3_OnlyValidatedData ==
    \A r \in Reqs :
        resp[r].status = 200 =>
            /\ \/ log[r].postalRead = "within30days" /\ log[r].postalFetches = 0
               \/ /\ log[r].postalRead \in {"absent", "beyond30days"}
                  /\ log[r].postalFetches = 1
                  /\ PostalFetched(r)
            /\ \/ log[r].regionRead = "within30days" /\ log[r].regionFetches = 0
               \/ /\ log[r].regionRead \in {"absent", "beyond30days"}
                  /\ log[r].regionFetches = 1
                  /\ RegionFetched(r)

C3_Witness ==
    \E r \in Reqs :
        /\ resp[r].status = 200
        /\ log[r].postalRead = "beyond30days"
        /\ log[r].postalFetch = "ok"
        /\ log[r].regionRead = "within30days"

ThirtyDaysInSeconds == 30 * 24 * 60 * 60

\* now - retrievalDate, as whole seconds and leftover milliseconds, minus 30
\* days, in milliseconds
ExcessOver30Days(retrievalDate, dateNow) ==
    LET seconds == (dateNow.d - retrievalDate.d) * (24 * 60 * 60)
                   + (dateNow.ms \div MS_PER_SECOND)
                   - (retrievalDate.ms \div MS_PER_SECOND)
        millis == (dateNow.ms % MS_PER_SECOND) - (retrievalDate.ms % MS_PER_SECOND)
    IN  (seconds - ThirtyDaysInSeconds) * MS_PER_SECOND + millis

\* C4: isDataStale(T) is true exactly when now - T is strictly greater than
\* 30 days: 30 days or less (29d23h59m59s, exactly 30 days) is not stale,
\* anything more (30 days and 1 ms, 30d00h00m01s) is stale.
C4_StaleIffOlderThan30Days ==
    probe.result # "none" =>
        (probe.result = "stale"
            <=> ExcessOver30Days(probe.retrievalDate, probe.dateNow) > 0)

C4_Witness ==
    /\ probe.result = "fresh"
    /\ TimeSub(probe.dateNow, probe.retrievalDate) = Ms(30, 0)

\* C5: a lookup whose remote region fetch failed never returns a successful
\* result; on the miss path it answers with the failure of the catch block,
\* the postal upsert having been issued before the region lookup began.
C5_RegionFetchFailureFailsLookup ==
    \A r \in Reqs :
        log[r].regionFetch = "failed" =>
            /\ resp[r].status # 200
            /\ PostalFetched(r) =>
                   /\ resp[r] = Failure("Error scraping postal code data")
                   /\ log[r].postalUpserts = 1
                   /\ log[r].postalUpsert \in {"done", "failed"}

C5_Witness ==
    \E r \in Reqs :
        /\ log[r].regionFetch = "failed"
        /\ log[r].postalFetch = "ok"
        /\ log[r].postalUpsert = "done"
        /\ log[r].postalCode \in DOMAIN postalTable
        /\ resp[r].status = 500

\* C6: no error is swallowed: every request for a postal code whose handler
\* has run to its end has received a response, a result or an explicit failure, also when the
\* Region Fetcher failed after the postal record was served from the cache.
C6_EveryRequestAnswered ==
    \A r \in Reqs :
        (log[r].postalCode # NoPostalCode /\ pc[r] \in {"responded", "abandoned"}) =>
            resp[r].status \in {200, 500}

\* C7: when the remote fetch of the postal page fails, the lookup answers
\* with the fetch failure, issues no write to either table and never starts
\* the region lookup, and the step leaves both tables and the pending
\* queries as they were (a stale row for the key stays unchanged).
C7_PostalFetchFailureWritesNothing ==
    [][ \A r \in Reqs :
            log'[r].postalFetch = "failed" =>
                /\ resp'[r] = Failure("Error scraping postal code data")
                /\ log'[r].postalUpserts = 0
                /\ log'[r].regionUpserts = 0
                /\ log'[r].regionRead = "none"
                /\ log[r].postalFetch # "failed" =>
                       /\ postalTable' = postalTable
                       /\ regionTable' = regionTable
                       /\ queue' = queue
      ]_vars

C7_Witness ==
    \E r \in Reqs :
        /\ log[r].postalFetch = "failed"
        /\ log[r].postalRead = "beyond30days"
        /\ log[r].postalCode \in DOMAIN postalTable
        /\ postalTable[log[r].postalCode].date_retrieved = EdgeDate
        /\ resp[r].status = 500

\* C8: a page fetched successfully that holds no matching row makes the
\* lookup fail: for the postal page and for the region page alike, no row is
\* written for the key and no successful result is returned.
C8_EmptyPageIsFailure ==
    \A r \in Reqs :
        /\ log[r].postalFetch = "empty" =>
               log[r].postalUpserts = 0 /\ resp[r].status # 200
        /\ log[r].regionFetch = "empty" =>
               log[r].regionUpserts = 0 /\ resp[r].status # 200

\* C9: a lookup whose postal SELECT failed answers with the store failure
\* and does nothing else: no remote fetch, no region lookup, no write; a
\* lookup whose region SELECT failed makes no region fetch and no region
\* write.
C9_ReadFailureStopsLookup ==
    \A r \in Reqs :
        /\ log[r].postalRead = "error" =>
               /\ resp[r] = Failure("Database error")
               /\ log[r].postalFetches = 0
               /\ log[r].regionRead = "none"
               /\ log[r].regionFetches = 0
               /\ log[r].postalUpserts = 0
               /\ log[r].regionUpserts = 0
        /\ log[r].regionRead = "error" =>
               /\ log[r].regionFetches = 0
               /\ log[r].regionUpserts = 0

C9_Witness ==
    /\ \E r \in Reqs : log[r].postalRead = "error" /\ resp[r].status = 500
    /\ \E r \in Reqs : log[r].regionRead = "error" /\ log[r].postalUpserts = 1

\* C10: a lookup whose postal upsert or region upsert failed in the store
\* does not return a successful result.
C10_WriteFailureFailsLookup ==
    \A r \in Reqs :
        (log[r].postalUpsert = "failed" \/ log[r].regionUpsert = "failed") =>
            resp[r].status # 200

\* C11: the failure a caller receives names its cause: an answered lookup
\* whose postal or region SELECT failed carries the store failure, and an
\* answered lookup whose postal or region page fetch failed carries the
\* fetch failure.
C11_FailureKindMatchesCause ==
    \A r \in Reqs :
        resp[r].status = 500 =>
            /\ (log[r].postalRead = "error" \/ log[r].regionRead = "error") =>
                   resp[r] = Failure("Database error")
            /\ (log[r].postalFetch = "failed" \/ log[r].regionFetch = "failed") =>
                   resp[r] = Failure("Error scraping postal code data")

\* a postal code without its whitespace
RECURSIVE StripSpaces(_)
StripSpaces(s) ==
    IF s = << >> THEN << >>
    ELSE IF Head(s) = " " THEN StripSpaces(Tail(s))
    ELSE <<Head(s)>> \o StripSpaces(Tail(s))

\* C12: the postal table holds at most one row per normalized postal code:
\* two keys that differ only in whitespace are the same key.
C12_OneRowPerNormalizedCode ==
    \A k1, k2 \in DOMAIN postalTable :
        StripSpaces(k1) = StripSpaces(k2) => k1 = k2

\* C13: when a lookup that found neither a postal row nor a region row has
\* returned its successful result, the postal table holds the row of its
\* postal code and the region table holds the row of the region it resolved.
C13_WritesDoneWhenResultReturned ==
    \A r \in Reqs :
        (/\ resp[r].status = 200
         /\ log[r].postalRead = "absent" /\ log[r].postalFetch = "ok"
         /\ log[r].regionRead = "absent" /\ log[r].regionFetch = "ok") =>
            /\ log[r].postalCode \in DOMAIN postalTable
            /\ resp[r].body.data[1].EIEconomicRegionName \in DOMAIN regionTable

\* a row without its retrieval date
SansDate(row) == [f \in DOMAIN row \ {"date_retrieved"} |-> row[f]]

\* the postal row one lookup of postalCode on its own stores
SingleLookupPostalRow(postalCode) ==
    PostalParams(postalCode,
                 PostalFromFirstRow(RemotePostalPage(ReplaceFirst(postalCode, " ")), now))

\* the region row one lookup on its own stores for regionName
SingleLookupRegionRow(regionName) ==
    RegionParams(regionName,
                 [date_retrieved |-> now] @@ scrapeEconomicRegion(remoteRegionRows))

\* C14: when two lookups of the same postal code both found its row missing
\* or older than 30 days and both upserts have taken effect, the table holds
\* one row for the key and its fetched columns are those a single lookup
\* would have stored; likewise for the region row when both lookups found
\* it missing or older than 30 days and both region upserts took effect.
C14_ConcurrentLookupsLeaveOneRow ==
    \A r1, r2 \in Reqs :
        (r1 # r2 /\ log[r1].postalCode = log[r2].postalCode) =>
            /\ (/\ log[r1].postalRead \in {"absent", "beyond30days"}
                /\ log[r2].postalRead \in {"absent", "beyond30days"}
                /\ log[r1].postalUpsert = "done"
                /\ log[r2].postalUpsert = "done") =>
                   /\ log[r1].postalCode \in DOMAIN postalTable
                   /\ SansDate(postalTable[log[r1].postalCode]) =
                          SansDate(SingleLookupPostalRow(log[r1].postalCode))
            /\ (/\ log[r1].regionRead \in {"absent", "beyond30days"}
                /\ log[r2].regionRead \in {"absent", "beyond30days"}
                /\ log[r1].regionUpsert = "done"
                /\ log[r2].regionUpsert = "done") =>
                   /\ DOMAIN regionTable # {}
                   /\ \A regionName \in DOMAIN regionTable :
                          SansDate(regionTable[regionName]) =
                              SansDate(SingleLookupRegionRow(regionName))

C14_Witness ==
    \E r1, r2 \in Reqs :
        /\ r1 # r2
        /\ log[r1].postalCode = K1A /\ log[r2].postalCode = K1A
        /\ log[r1].postalRead = "beyond30days" /\ log[r2].postalRead = "beyond30days"
        /\ log[r1].postalUpsert = "done" /\ log[r2].postalUpsert = "done"
        /\ log[r1].regionRead = "beyond30days" /\ log[r2].regionRead = "beyond30days"
        /\ log[r1].regionFetch = "ok" /\ log[r2].regionFetch = "ok"
        /\ log[r1].regionUpsert = "done" /\ log[r2].regionUpsert = "done"
        /\ postalTable[K1A].common_name = "Ottawa"

\* C15: an upsert that takes effect leaves under its key exactly the row it
\* carried, every column included, whatever row was there before; the same
\* upsert applied to a table that already holds that row leaves the table
\* as it is, and applying it once more to the result changes nothing.
C15_UpsertIdempotentFullOverwrite ==
    [][ /\ \A r \in Reqs :
              (log[r].postalUpsert = "issued" /\ log'[r].postalUpsert = "done") =>
                  LET row == Head(queue).row
                      key == row.postal_code
                  IN  /\ postalTable'[key] = row
                      /\ Upsert(postalTable', key, row) = postalTable'
                      /\ (key \in DOMAIN postalTable /\ postalTable[key] = row) =>
                             postalTable' = postalTable
        /\ \A r \in Reqs :
              (log[r].regionUpsert = "issued" /\ log'[r].regionUpsert = "done") =>
                  LET row == Head(queue).row
                      key == row.economic_region_name
                  IN  /\ regionTable'[key] = row
                      /\ Upsert(regionTable', key, row) = regionTable'
                      /\ (key \in DOMAIN regionTable /\ regionTable[key] = row) =>
                             regionTable' = regionTable
      ]_vars

C15_Witness ==
    \E r1, r2 \in Reqs :
        /\ r1 # r2
        /\ now = TimeAdd(StartTime, Ms(0, 1))
        /\ log[r1].regionRead = "beyond30days" /\ log[r2].regionRead = "beyond30days"
        /\ log[r1].regionFetch = "ok" /\ log[r2].regionFetch = "ok"
        /\ log[r1].regionUpsert = "done" /\ log[r2].regionUpsert = "done"
        /\ regionTable["Ottawa"].unemployment_rate = "5.6"
        /\ regionTable["Ottawa"].date_retrieved = now

\* C16: on the miss path the steps of one lookup come in order: the postal
\* page is fetched only after the postal SELECT found no row or a row older
\* than 30 days; the postal upsert is issued only after the page arrived;
\* the store runs the region SELECT only after the postal upsert has taken
\* effect; the region page is fetched only after the region SELECT found no
\* row or a row older than 30 days; the region upsert is issued only after
\* the region page arrived.
C16_MissPathOrder ==
    \A r \in Reqs :
        /\ log[r].postalFetches > 0 => log[r].postalRead \in {"absent", "beyond30days"}
        /\ log[r].postalUpsert # "none" => PostalFetched(r)
        /\ (log[r].postalFetches > 0 /\ log[r].regionRead # "none") =>
               /\ log[r].postalUpsert = "done"
               /\ log[r].postalCode \in DOMAIN postalTable
        /\ log[r].regionFetches > 0 => log[r].regionRead \in {"absent", "beyond30days"}
        /\ log[r].regionUpsert # "none" => RegionFetched(r)

C16_Witness ==
    \E r \in Reqs :
        /\ log[r].postalRead = "absent"
        /\ log[r].postalFetch = "ok"
        /\ log[r].postalUpsert = "done"
        /\ log[r].regionRead = "absent"
        /\ log[r].regionFetch = "ok"
        /\ log[r].regionUpsert = "done"
        /\ resp[r].status = 200

\* C17: no step removes a row from either table; a table changes only when
\* the upsert of a lookup that found the row missing or older than 30 days
\* takes effect; a lookup that found both its postal row and its region row
\* retrieved within 30 days has made no remote fetch and issued no write,
\* and its steps leave both tables as they were.
C17_FreshHitWritesNothing ==
    [][ /\ DOMAIN postalTable \subseteq DOMAIN postalTable'
        /\ DOMAIN regionTable \subseteq DOMAIN regionTable'
        /\ postalTable' # postalTable =>
               \E r \in Reqs :
                   /\ log[r].postalRead \in {"absent", "beyond30days"}
                   /\ log[r].postalUpsert = "issued" /\ log'[r].postalUpsert = "done"
        /\ regionTable' # regionTable =>
               \E r \in Reqs :
                   /\ log[r].regionRead \in {"absent", "beyond30days"}
                   /\ log[r].regionUpsert = "issued" /\ log'[r].regionUpsert = "done"
        /\ \A r \in Reqs :
               (/\ log'[r].postalRead = "within30days"
                /\ log'[r].regionRead = "within30days") =>
                   /\ log'[r].postalFetches = 0 /\ log'[r].regionFetches = 0
                   /\ log'[r].postalUpserts = 0 /\ log'[r].regionUpserts = 0
                   /\ \A i \in 1..Len(queue') : queue'[i].req # r
                   /\ log'[r] # log[r] =>
                          postalTable' = postalTable /\ regionTable' = regionTable
      ]_vars

C17_Witness ==
    \E r \in Reqs :
        /\ log[r].postalRead = "within30days"
        /\ log[r].regionRead = "within30days"
        /\ resp[r].status = 200
        /\ log[r].postalCode \in DOMAIN postalTable
        /\ postalTable[log[r].postalCode].date_retrieved = EdgeDate
        /\ regionTable["Ottawa"].date_retrieved = EdgeDate

\* C18: for a region page with rows, the region details a lookup returns
\* after fetching the page, and the row it stores, take every field from
\* the last row of the page, and so none from the rows before it.
C18_RegionLastRowWins ==
    \A r \in Reqs :
        log[r].regionFetch = "ok" =>
            LET last == remoteRegionRows[Len(remoteRegionRows)]
            IN  /\ resp[r].status = 200 =>
                       LET details == resp[r].body.data[1].EconomicRegionDetails
                       IN  /\ details.Province = last.c0
                           /\ details.EconomicRegionCode = last.c1
                           /\ details.EconomicRegionName = last.c2
                           /\ details.UnemploymentRate = last.c3
                           /\ details.InsuredHoursRequired = last.c4
                           /\ details.MinWeeksPayable = last.c5
                           /\ details.MaxWeeksPayable = last.c6
                           /\ details.BestWeeksRequired = last.c7
                /\ log[r].regionUpsert = "done" =>
                       \A regionName \in DOMAIN regionTable :
                           LET stored == regionTable[regionName]
                           IN  /\ stored.province = last.c0
                               /\ stored.economic_region_code = last.c1
                               /\ stored.unemployment_rate = last.c3
                               /\ stored.insured_hours_required = last.c4
                               /\ stored.min_weeks_payable = last.c5
                               /\ stored.max_weeks_payable = last.c6
                               /\ stored.best_weeks_required = last.c7

C18_Witness ==
    \E r \in Reqs :
        /\ log[r].regionFetch = "ok"
        /\ log[r].regionUpsert = "done"
        /\ resp[r].status = 200
        /\ Len(remoteRegionRows) = 2
        /\ remoteRegionRows[1].c0 # remoteRegionRows[2].c0
        /\ remoteRegionRows[1].c7 # remoteRegionRows[2].c7
        /\ resp[r].body.data[1].EconomicRegionDetails.EconomicRegionCode = "3520"
        /\ regionTable["Ottawa"].economic_region_code = "3520"

\* C19: a lookup answered from stored rows retrieved within 30 days returns
\* the same fields, under the same names and with the same values, as the
\* earlier lookup of the same postal code (one without whitespace) that
\* fetched and stored those rows.
C19_CacheHitSameAsFetch ==
    \A r1, r2 \in Reqs :
        (/\ resp[r1].status = 200 /\ resp[r2].status = 200
         /\ log[r1].postalCode = log[r2].postalCode
         /\ StripSpaces(log[r1].postalCode) = log[r1].postalCode
         /\ log[r1].postalFetch = "ok" /\ log[r1].regionFetch = "ok"
         /\ log[r2].postalRead = "within30days"
         /\ log[r2].regionRead = "within30days"
         /\ resp[r2].body.data[1].date_retrieved =
                resp[r1].body.data[1].date_retrieved
         /\ resp[r2].body.data[1].EconomicRegionDetails.date_retrieved =
                resp[r1].body.data[1].EconomicRegionDetails.date_retrieved) =>
            LET miss == resp[r1].body.data[1]
                hit == resp[r2].body.data[1]
            IN  /\ DOMAIN hit = DOMAIN miss
                /\ DOMAIN hit.EconomicRegionDetails = DOMAIN miss.EconomicRegionDetails
                /\ \A f \in DOMAIN miss : hit[f] = miss[f]

\* C20: under every key of either table the stored retrieval date never
\* decreases from one state to the next, whichever lookups' upserts take
\* effect in whichever order, and it is never later than the clock.
C20_RetrievalDateNeverDecreases ==
    [][ /\ \A k \in DOMAIN postalTable :
               /\ k \in DOMAIN postalTable'
               /\ TimeGe(postalTable'[k].date_retrieved, postalTable[k].date_retrieved)
        /\ \A k \in DOMAIN regionTable :
               /\ k \in DOMAIN regionTable'
               /\ TimeGe(regionTable'[k].date_retrieved, regionTable[k].date_retrieved)
        /\ \A k \in DOMAIN postalTable' : TimeGe(now', postalTable'[k].date_retrieved)
        /\ \A k \in DOMAIN regionTable' : TimeGe(now', regionTable'[k].date_retrieved)
      ]_vars

C20_Witness ==
    \E r1, r2 \in Reqs :
        /\ log[r1].postalCode = K1A /\ log[r2].postalCode = K1A
        /\ log[r1].postalRead = "absent" /\ log[r2].postalRead = "absent"
        /\ log[r1].postalUpsert = "done" /\ log[r2].postalUpsert = "done"
        /\ resp[r1].status = 200 /\ resp[r2].status = 200
        /\ resp[r1].body.data[1].date_retrieved = StartTime
        /\ resp[r2].body.data[1].date_retrieved = TimeAdd(StartTime, Ms(0, 1))
        /\ postalTable[K1A].date_retrieved = TimeAdd(StartTime, Ms(0, 1))

====
